---------------------------- MODULE Spec2Model ----------------------------
(***************************************************************************)
(* Model of src/app.py: a Streamlit dashboard script.  Every render pass   *)
(* runs the script top to bottom: the memoized loader load_and_clean_data  *)
(* (with its nested parser clean_reviews), the two sidebar sliders, the    *)
(* filter, the three metrics, the chart-or-warning and the table.          *)
(*                                                                         *)
(* Text is a sequence of one-character tokens.  The CJK characters of the  *)
(* source's sentinel strings are written as ASCII tokens: "<wu>" is the    *)
(* character of the one-character sentinel, "<wu>","<ping>","<lun>" spell  *)
(* the no-reviews sentinel, "<wu>","<ping>","<fen>" the no-rating one and  *)
(* "<wu>","<deng>","<ji>" the no-grade one.                                *)
(*                                                                         *)
(* A Python float is a record: [cls |-> "fin", neg, mant, scale] is the    *)
(* number (-1)^neg * mant / 10^scale, [cls |-> "inf", neg] an infinity and *)
(* [cls |-> "nan"] a NaN.  Binary rounding of floats is not modelled.      *)
(***************************************************************************)
EXTENDS Integers, Sequences, FiniteSets, TLC

VARIABLES
    disk,       \* what is stored at DATA_FILE on the file system
    cache,      \* entries of the st.cache_data memo of load_and_clean_data
    page,       \* what the last script run left on the page
    cell,       \* parser pipeline: the raw review-count cell under study
    pc,         \* parser pipeline: position in lines 56 and 62
    ret,        \* parser pipeline: what clean_reviews returned
    count,      \* parser pipeline: the cell's review_count after astype(int)
    log10       \* parser pipeline: the cell's log10(review_count + 1)

vars == <<disk, cache, page, cell, pc, ret, count, log10>>
dashVars == <<disk, cache, page>>
parseVars == <<cell, pc, ret, count, log10>>

-----------------------------------------------------------------------------
(* Bounds of the model.                                                    *)

MaxRows == 2        \* rows of the spreadsheet
MaxLen == 3         \* characters of an enumerated review-count text

-----------------------------------------------------------------------------
(* Python values and str methods used by clean_reviews.                    *)

Digits == {"0", "1", "2", "3", "4", "5", "6", "7", "8", "9"}

DigitVal(c) ==
    CASE c = "0" -> 0 [] c = "1" -> 1 [] c = "2" -> 2 [] c = "3" -> 3
      [] c = "4" -> 4 [] c = "5" -> 5 [] c = "6" -> 6 [] c = "7" -> 7
      [] c = "8" -> 8 [] c = "9" -> 9

Pow10(n) == IF n <= 0 THEN 1
            ELSE IF n = 1 THEN 10
            ELSE IF n = 2 THEN 100
            ELSE IF n = 3 THEN 1000
            ELSE IF n = 4 THEN 10000
            ELSE IF n = 5 THEN 100000
            ELSE IF n = 6 THEN 1000000
            ELSE IF n = 7 THEN 10000000
            ELSE IF n = 8 THEN 100000000
            ELSE 1000000000

Str(s) == [tag |-> "str", s |-> s]
Num(f) == [tag |-> "num", f |-> f]
Missing == [tag |-> "nan"]

Fin(neg, mant, scale) == [cls |-> "fin", neg |-> neg, mant |-> mant, scale |-> scale]
Inf(neg) == [cls |-> "inf", neg |-> neg]
NaN == [cls |-> "nan"]
IntZero == Fin(FALSE, 0, 0)

\* c.upper() and c.lower() of one character
UpperChar(c) ==
    CASE c = "k" -> "K" [] c = "n" -> "N" [] c = "a" -> "A" [] c = "i" -> "I"
      [] c = "f" -> "F" [] c = "e" -> "E" [] c = "b" -> "B" [] c = "c" -> "C"
      [] c = "o" -> "O" [] OTHER -> c

LowerChar(c) ==
    CASE c = "K" -> "k" [] c = "N" -> "n" [] c = "A" -> "a" [] c = "I" -> "i"
      [] c = "F" -> "f" [] c = "E" -> "e" [] c = "B" -> "b" [] c = "C" -> "c"
      [] c = "O" -> "o" [] OTHER -> c

upper(s) == [i \in 1..Len(s) |-> UpperChar(s[i])]
lower(s) == [i \in 1..Len(s) |-> LowerChar(s[i])]

RECURSIVE lstrip(_)
lstrip(s) == IF s # <<>> /\ Head(s) = " " THEN lstrip(Tail(s)) ELSE s

RECURSIVE rstrip(_)
rstrip(s) == IF s # <<>> /\ s[Len(s)] = " " THEN rstrip(SubSeq(s, 1, Len(s) - 1)) ELSE s

strip(s) == rstrip(lstrip(s))

\* s.replace(c, '') for a one-character c
remove(s, c) == SelectSeq(s, LAMBDA x : x # c)

contains(s, c) == \E i \in 1..Len(s) : s[i] = c

\* index of the first occurrence of a character of cs in s, 0 when there is none
RECURSIVE FindFrom(_, _, _)
FindFrom(s, cs, i) ==
    IF i > Len(s) THEN 0 ELSE IF s[i] \in cs THEN i ELSE FindFrom(s, cs, i + 1)

AllDigits(s) == \A i \in 1..Len(s) : s[i] \in Digits

RECURSIVE DigitsVal(_)
DigitsVal(s) == IF s = <<>> THEN 0
                ELSE 10 * DigitsVal(SubSeq(s, 1, Len(s) - 1)) + DigitVal(s[Len(s)])


\* float(s): Python's parse of a str.  [ok |-> FALSE] stands for ValueError.
\* Surrounding whitespace is ignored, then: an optional sign, then "inf",
\* "infinity" or "nan" in any case, or decimal digits with at most one point and
\* an optional exponent.  A magnitude above the largest double parses to inf.
Raises == [ok |-> FALSE]
Returns(f) == [ok |-> TRUE, f |-> f]

\* the part of s before position i (all of s when i = 0), and the part after it
Before(s, i) == IF i = 0 THEN s ELSE SubSeq(s, 1, i - 1)
After(s, i) == IF i = 0 THEN <<>> ELSE SubSeq(s, i + 1, Len(s))

HasSign(s) == s # <<>> /\ Head(s) \in {"+", "-"}
IsNegative(s) == s # <<>> /\ Head(s) = "-"
Unsigned(s) == IF HasSign(s) THEN Tail(s) ELSE s

\* digits [ "." digits ] with at least one digit
MantissaOf(ip, fp) ==
    IF AllDigits(ip) /\ AllDigits(fp) /\ Len(ip) + Len(fp) >= 1
    THEN [ok |-> TRUE, mant |-> DigitsVal(ip \o fp), scale |-> Len(fp),
          digits |-> Len(ip)]
    ELSE [ok |-> FALSE]

Mantissa(m) == MantissaOf(Before(m, FindFrom(m, {"."}, 1)), After(m, FindFrom(m, {"."}, 1)))

\* [sign] digits
ExponentOf(neg, ds) ==
    IF ds # <<>> /\ AllDigits(ds)
    THEN [ok |-> TRUE, e |-> IF neg THEN 0 - DigitsVal(ds) ELSE DigitsVal(ds)]
    ELSE [ok |-> FALSE]

Exponent(x) == ExponentOf(IsNegative(x), Unsigned(x))

DecimalOf(neg, m, x) ==
    IF ~m.ok \/ ~x.ok THEN Raises
    ELSE IF m.mant = 0 THEN Returns(Fin(neg, 0, 0))
    ELSE IF m.digits + x.e > 309 THEN Returns(Inf(neg))
    ELSE IF x.e >= m.scale THEN Returns(Fin(neg, m.mant * Pow10(x.e - m.scale), 0))
    ELSE Returns(Fin(neg, m.mant, m.scale - x.e))

DecimalAt(neg, body, epos) ==
    DecimalOf(neg, Mantissa(Before(body, epos)),
              IF epos = 0 THEN [ok |-> TRUE, e |-> 0] ELSE Exponent(After(body, epos)))

Decimal(neg, body) == DecimalAt(neg, body, FindFrom(body, {"e", "E"}, 1))

FloatOf(neg, body, word) ==
    IF word = <<"n", "a", "n">> THEN Returns(NaN)
    ELSE IF word \in {<<"i", "n", "f">>, <<"i", "n", "f", "i", "n", "i", "t", "y">>}
         THEN Returns(Inf(neg))
    ELSE Decimal(neg, body)

FloatStripped(t) == FloatOf(IsNegative(t), Unsigned(t), lower(Unsigned(t)))

float(s) == FloatStripped(strip(s))

\* f * 1000 on a float
Times1000(f) == IF f.cls = "fin" THEN Fin(f.neg, f.mant * 1000, f.scale) ELSE f

-----------------------------------------------------------------------------
(* clean_reviews, lines 36-54.                                             *)

NoReviewSentinels == {<<"0">>, <<"<wu>", "<ping>", "<lun>">>, <<"<wu>">>, <<>>}

\* pd.api.types.is_numeric_dtype(x): true of a dtype or of an array with a
\* numeric dtype.  Series.apply hands clean_reviews the cells as Python scalars
\* (it maps over values.astype(object)), and np.dtype(<a Python number>) raises
\* TypeError, which is_numeric_dtype answers with False.
is_numeric_dtype(x) == x.tag \in {"dtype", "ndarray"}

\* try: return <r> except ValueError: return 0
OrZero(r) == IF r.ok THEN r.f ELSE IntZero
KTimes(r) == IF r.ok THEN Times1000(r.f) ELSE IntZero

\* lines 39-51, on the stripped text
clean_text(s) ==
    IF contains(s, "K") \/ contains(s, "k") THEN KTimes(float(remove(upper(s), "K")))
    ELSE IF lower(s) \in NoReviewSentinels THEN IntZero
    ELSE OrZero(float(remove(s, ",")))

clean_reviews(review_str) ==
    IF review_str.tag = "str" THEN clean_text(strip(review_str.s))
    ELSE IF is_numeric_dtype(review_str) THEN review_str.f
    ELSE IntZero

\* .astype(int) of line 56 on one element: truncation toward zero; a NaN or an
\* infinity raises (IntCastingNaNError), which ends load_and_clean_data.
astype_int(f) ==
    IF f.cls # "fin" THEN [ok |-> FALSE]
    ELSE LET q == f.mant \div Pow10(f.scale)
         IN  [ok |-> TRUE, v |-> IF f.neg THEN 0 - q ELSE q]

\* np.log10 of line 62, to the resolution of the slider that reads it: the value
\* is kept as floor(10 * log10(m)), exact for m < 10^6.  log10(0) is -inf and
\* the log10 of a negative number is NaN.
RECURSIVE NumDigits(_)
NumDigits(m) == IF m < 10 THEN 1 ELSE 1 + NumDigits(m \div 10)

\* ceiling of 10^(r/10) * 10^5
TenthRoot(r) ==
    CASE r = 0 -> 100000 [] r = 1 -> 125893 [] r = 2 -> 158490 [] r = 3 -> 199527
      [] r = 4 -> 251189 [] r = 5 -> 316228 [] r = 6 -> 398108 [] r = 7 -> 501188
      [] r = 8 -> 630958 [] r = 9 -> 794329

\* the largest r in 0..9 with lead >= 10^(r/10) * 10^5, for lead in 10^5 .. 10^6 - 1
TenthsOfLead(lead) ==
    CHOOSE k \in 0..9 : /\ lead >= TenthRoot(k)
                        /\ \A j \in 0..9 : lead >= TenthRoot(j) => j <= k

Lead(m, d) == IF d <= 5 THEN m * Pow10(5 - d) ELSE m \div Pow10(d - 5)

Log10Of(m, d) == 10 * d + TenthsOfLead(Lead(m, d))

Log10Tenths(m) == Log10Of(m, NumDigits(m) - 1)

np_log10(m) ==
    IF m > 0 THEN [cls |-> "fin", tenths |-> Log10Tenths(m)]
    ELSE IF m = 0 THEN [cls |-> "-inf"]
    ELSE [cls |-> "nan"]

-----------------------------------------------------------------------------
(* The spreadsheet and load_and_clean_data, lines 18-69.                   *)

DATA_FILE == "data.xlsx"

\* Rows a spreadsheet is built from: title, rating cell, review-count cell.
Row(title, rating, reviews) == [title |-> title, rating |-> rating, reviews |-> reviews]

Rows == {
    Row("A", Num(Fin(FALSE, 41, 1)), Str(<<"8">>)),
    Row("B", Str(<<"<wu>", "<ping>", "<fen>">>), Str(<<"5", "0">>)),
    Row("C", Num(Fin(FALSE, 4, 0)), Str(<<"9">>)),
    Row("D", Str(<<"4", ".", "1">>), Str(<<"-", "5">>)),
    Row("E", Str(<<"4", ".", "1">>), Str(<<"n", "a", "n">>)),
    Row("F", Missing, Str(<<"1", "2">>)),
    Row("G", Str(<<"a", "b", "c">>), Str(<<"8">>)) }

NoFile == [state |-> "missing"]
BadFile == [state |-> "unreadable"]
Sheet(rows) == [state |-> "sheet", rows |-> rows]

RatingSentinels == {<<"<wu>", "<ping>", "<fen>">>, <<"<wu>">>,
                    <<"N", "o", "n", "e">>, <<"<wu>", "<deng>", "<ji>">>}

\* df['rating'].replace([sentinels], np.nan) on one cell: whole-cell matches only
replace_sentinels(c) ==
    IF c.tag = "str" /\ c.s \in RatingSentinels THEN Missing ELSE c

\* pd.to_numeric(..., errors='coerce') on one cell.  A rating is kept in
\* hundredths: Fin(neg, mant, 2).
Coerce(r) ==
    IF ~r.ok THEN NaN
    ELSE IF r.f.cls = "fin" THEN Fin(r.f.neg, r.f.mant * Pow10(2 - r.f.scale), 2)
    ELSE r.f

to_numeric(c) ==
    Coerce(IF c.tag = "str" THEN float(c.s)
           ELSE IF c.tag = "num" THEN Returns(c.f)
           ELSE Returns(NaN))

Signed(f) == IF f.neg THEN 0 - f.mant ELSE f.mant

\* lines 56-64 on one row: the derived columns
Derived(title, n, rating) ==
    [title |-> title,
     cast_ok |-> n.ok,
     review_count |-> IF n.ok THEN n.v ELSE 0,
     rating |-> rating,
     review_count_log10 |-> IF n.ok THEN np_log10(n.v + 1) ELSE [cls |-> "nan"]]

derive(row) ==
    Derived(row.title, astype_int(clean_reviews(row.reviews)),
            to_numeric(replace_sentinels(row.rating)))

\* df.dropna() without the subset: a NaN in any derived column drops the row
dropna_any(df) ==
    SelectSeq(df, LAMBDA x : x.rating.cls # "nan" /\ x.review_count_log10.cls # "nan")

\* line 67: df.dropna(subset=[rating])
dropna(df) == SelectSeq(df, LAMBDA x : x.rating.cls # "nan")

MISSING_FILE_ERROR == "Error: Could not find data file"
READ_ERROR == "Error reading Excel file"

\* the columns of a cleaned record
Columns(x) == [title |-> x.title, review_count |-> x.review_count, rating |-> x.rating,
               review_count_log10 |-> x.review_count_log10]

\* lines 56-69 on the frame read from the file
Cleaned(df) ==
    IF \E i \in 1..Len(df) : ~df[i].cast_ok
    THEN [outcome |-> "raised", df |-> <<>>, shown |-> <<>>]
    ELSE [outcome |-> "returned", shown |-> <<>>,
          df |-> [i \in 1..Len(dropna(df)) |-> Columns(dropna(df)[i])]]

\* The body of load_and_clean_data on the file as it is now.  "raised" is an
\* exception leaving the function (the astype(int) of line 56 on a NaN or an
\* infinity).
load_and_clean_data(file_path, file) ==
    IF file.state = "missing"
    THEN [outcome |-> "returned", df |-> <<>>, shown |-> <<MISSING_FILE_ERROR>>]
    ELSE IF file.state = "unreadable"
    THEN [outcome |-> "returned", df |-> <<>>, shown |-> <<READ_ERROR>>]
    ELSE Cleaned([i \in 1..Len(file.rows) |-> derive(file.rows[i])])

\* @st.cache_data: the memo's key is the function's argument, the path string.
\* A hit returns the stored value and replays the st.error calls recorded with
\* it; a miss runs the body and stores what it returned; an exception stores
\* nothing.
cache_key(file_path, file) == file_path

Hit(k) == \E e \in cache : e.key = k
Lookup(k) == (CHOOSE e \in cache : e.key = k).value
Store(k, v) == IF v.outcome = "returned" THEN cache \cup {[key |-> k, value |-> v]}
               ELSE cache
Miss(k, v) == [result |-> v, store |-> Store(k, v)]

cached_load(file_path) ==
    IF Hit(cache_key(file_path, disk))
    THEN [result |-> Lookup(cache_key(file_path, disk)), store |-> cache]
    ELSE Miss(cache_key(file_path, disk), load_and_clean_data(file_path, disk))

-----------------------------------------------------------------------------
(* The rest of the script, lines 73-194.                                   *)

Min(S) == CHOOSE x \in S : \A y \in S : x <= y
Max(S) == CHOOSE x \in S : \A y \in S : y <= x

RECURSIVE SumRatings(_)
SumRatings(df) == IF df = <<>> THEN 0 ELSE Signed(Head(df).rating) + SumRatings(Tail(df))

\* st.slider(label, min, max, value, step): the values the user can set
SliderValues(lo, hi, step) == {lo + k * step : k \in 0..((hi - lo) \div step)}

RATING_STEP == 10       \* step=0.1 of line 90, in hundredths
LOG_STEP == 1           \* step=0.1 of line 105, in tenths
LOG_DEFAULT == 10       \* the default 1.0 of line 104, in tenths

min_rating_val(df) == Min({Signed(df[i].rating) : i \in 1..Len(df)})
max_rating_val(df) == Max({Signed(df[i].rating) : i \in 1..Len(df)})

\* lines 96-98.  Series.max() skips NaN; a maximum below 1.0 (-inf included)
\* is raised to 1.0.  When every log is NaN the maximum is NaN, which line 97
\* lets through; a slider that accepts it settles its upper bound on its
\* default value, 1.0.
FiniteLogs(df) == {df[i].review_count_log10.tenths :
                     i \in {j \in 1..Len(df) : df[j].review_count_log10.cls = "fin"}}
AllLogsNaN(df) == \A i \in 1..Len(df) : df[i].review_count_log10.cls = "nan"
max_log_val(df) ==
    IF FiniteLogs(df) = {} THEN 10
    ELSE IF Max(FiniteLogs(df)) < 10 THEN 10 ELSE Max(FiniteLogs(df))

\* the filter with exclusive comparisons
passes_strict(x, r_min, l_min) ==
    /\ Signed(x.rating) > r_min
    /\ x.review_count_log10.cls = "fin"
    /\ x.review_count_log10.tenths > l_min

\* lines 110-113: both comparisons are >=, and a NaN or -inf log passes none
passes(x, r_min, l_min) ==
    /\ Signed(x.rating) >= r_min
    /\ x.review_count_log10.cls = "fin"
    /\ x.review_count_log10.tenths >= l_min

df_filtered(df, r_min, l_min) == SelectSeq(df, LAMBDA x : passes(x, r_min, l_min))

Ratio(num, den) == [num |-> num, den |-> den]
Zero == Ratio(0, 1)
NA == [na |-> TRUE]
Count(n) == [na |-> FALSE, v |-> n]

\* the mean without the guard for an empty view
avg_rating_unguarded(f) == Ratio(SumRatings(f), 100 * Len(f))

\* lines 116-119
avg_rating_filtered(f) ==
    IF f # <<>> THEN Ratio(SumRatings(f), 100 * Len(f)) ELSE Zero

\* line 141
max_reviews(f) ==
    IF f # <<>> THEN Count(Max({f[i].review_count : i \in 1..Len(f)})) ELSE NA

\* lines 152-180
chart_area(f) == IF f = <<>> THEN "warning" ELSE "chart"

NoPage == [status |-> "none", shown |-> <<>>]
Crashed == [status |-> "crashed", shown |-> <<>>]
Stopped(shown) == [status |-> "stopped", shown |-> shown]

\* lines 78-194 for slider values r_min and l_min
Dashboard(df, shown, r_min, l_min, f) ==
    [status |-> "rendered", shown |-> shown,
     min_rating_slider |-> r_min, min_reviews_log |-> l_min,
     df_original |-> df, df_filtered |-> f,
     count |-> Len(f), coverage |-> Ratio(Len(f) * 100, Len(df)),
     avg_rating |-> avg_rating_filtered(f),
     max_reviews |-> max_reviews(f),
     chart |-> chart_area(f),
     table |-> [i \in 1..Len(f) |-> <<f[i].title, f[i].rating, f[i].review_count>>]]

Rendered(df, shown, r_min, l_min) ==
    Dashboard(df, shown, r_min, l_min, df_filtered(df, r_min, l_min))

RatingSlider(df) == SliderValues(min_rating_val(df), max_rating_val(df), RATING_STEP)
LogSlider(df) == SliderValues(0, max_log_val(df), LOG_STEP)

\* One run of the script.  widgets is "default" on a session's first run and
\* the pair of slider values the user set on a rerun.  When every log is NaN
\* the second slider is built with max_value=nan; Streamlit either rejects it
\* (an exception ends the run) or settles the bounds on the default, and both
\* outcomes are allowed.
Script(widgets, df, shown) ==
    \/ /\ AllLogsNaN(df)
       /\ page' = Crashed
    \/ /\ widgets = "default"
       /\ page' = Rendered(df, shown, min_rating_val(df), LOG_DEFAULT)
    \/ /\ widgets # "default"
       /\ widgets[1] \in RatingSlider(df)
       /\ widgets[2] \in LogSlider(df)
       /\ page' = Rendered(df, shown, widgets[1], widgets[2])

RunWith(widgets, c) ==
    /\ cache' = c.store
    /\ IF c.result.outcome = "raised" THEN page' = Crashed
       ELSE IF c.result.df = <<>> THEN page' = Stopped(c.result.shown)
       ELSE Script(widgets, c.result.df, c.result.shown)
    /\ UNCHANGED <<disk, parseVars>>

Run(widgets) == RunWith(widgets, cached_load(DATA_FILE))

\* A browser session opens the page: the script runs with the widget defaults.
FirstRun == Run("default")

\* The user moves one slider on a rendered page: the script reruns with the
\* value set and the other slider as it was.
MoveRatingSlider ==
    /\ page.status = "rendered"
    /\ \E r_min \in RatingSlider(page.df_original) :
          Run(<<r_min, page.min_reviews_log>>)

MoveReviewsSlider ==
    /\ page.status = "rendered"
    /\ \E l_min \in LogSlider(page.df_original) :
          Run(<<page.min_rating_slider, l_min>>)

-----------------------------------------------------------------------------
(* The file system under DATA_FILE, which changes outside the script.      *)

CreateFile ==
    /\ disk.state # "sheet"
    /\ disk' = Sheet(<<>>)
    /\ UNCHANGED <<cache, page, parseVars>>

\* a listing is added to the sheet; each listing has its own title
AppendRow(row) ==
    /\ disk.state = "sheet"
    /\ Len(disk.rows) < MaxRows
    /\ \A i \in 1..Len(disk.rows) : disk.rows[i].title # row.title
    /\ disk' = Sheet(Append(disk.rows, row))
    /\ UNCHANGED <<cache, page, parseVars>>

RemoveFile ==
    /\ disk.state # "missing"
    /\ disk' = NoFile
    /\ UNCHANGED <<cache, page, parseVars>>

CorruptFile ==
    /\ disk.state = "sheet"
    /\ disk' = BadFile
    /\ UNCHANGED <<cache, page, parseVars>>

-----------------------------------------------------------------------------
(* Lines 56 and 62 on one review-count cell, step by step.                 *)

Alphabet == {"1", "2", "K", "k", ".", ",", "-", " ", "n", "a"}

Examples == {
    <<"0">>, <<"<wu>">>, <<"<wu>", "<ping>", "<lun>">>,
    <<"3", ".", "4", "K">>, <<"3", ".", "4", "k">>, <<"1", ",", "2", "3", "4">>,
    <<"3", "4", "1">>, <<"a", "b", "c">>, <<"i", "n", "f">>, <<"-", "i", "n", "f">>,
    <<"1", "e", "4", "0", "0">>, <<"1", "e", "2">>, <<" ", "1", "2", "K", " ">>,
    <<"i", "n", "f", "K">>, <<"2", "5", "e", "-", "1">> }

Texts == UNION {[1..n -> Alphabet] : n \in 0..MaxLen} \cup Examples

Numbers == {Fin(FALSE, 341, 0), Fin(FALSE, 35, 1), Fin(TRUE, 5, 0), Fin(FALSE, 0, 0)}

ReviewCells == {Str(s) : s \in Texts} \cup {Num(f) : f \in Numbers} \cup {Missing}

\* df[reviews].apply(clean_reviews) on the cell
ApplyCleanReviews ==
    /\ pc = "apply"
    /\ ret' = clean_reviews(cell)
    /\ pc' = "astype"
    /\ UNCHANGED <<cell, count, log10, dashVars>>

\* .astype(int): the review_count column, or the exception that ends the load
AsTypeInt ==
    /\ pc = "astype"
    /\ IF astype_int(ret).ok
       THEN count' = astype_int(ret).v /\ pc' = "log10"
       ELSE count' = count /\ pc' = "raised"
    /\ UNCHANGED <<cell, ret, log10, dashVars>>

\* np.log10(review_count + 1)
Log10Column ==
    /\ pc = "log10"
    /\ log10' = np_log10(count + 1)
    /\ pc' = "done"
    /\ UNCHANGED <<cell, ret, count, dashVars>>

Idle == "idle"

Init ==
    /\ disk = NoFile
    /\ cache = {}
    /\ page = NoPage
    /\ cell = Missing
    /\ pc = Idle
    /\ ret = IntZero
    /\ count = 0
    /\ log10 = np_log10(1)

InitParse ==
    /\ disk = NoFile
    /\ cache = {}
    /\ page = NoPage
    /\ cell \in ReviewCells
    /\ pc = "apply"
    /\ ret = IntZero
    /\ count = 0
    /\ log10 = np_log10(1)

NextParse ==
    \/ ApplyCleanReviews
    \/ AsTypeInt
    \/ Log10Column

SpecParse == InitParse /\ [][NextParse]_vars

Next ==
    \/ FirstRun
    \/ MoveRatingSlider
    \/ MoveReviewsSlider
    \/ CreateFile
    \/ \E row \in Rows : AppendRow(row)
    \/ RemoveFile
    \/ CorruptFile

Spec == Init /\ [][Next]_vars

-----------------------------------------------------------------------------
(* Properties.                                                             *)

Pass == FirstRun \/ MoveRatingSlider \/ MoveReviewsSlider

\* a record meets the thresholds: its rating is at least r_min and its log
\* review count is a number that is at least l_min
Meets(x, r_min, l_min) ==
    /\ x.rating.cls = "fin"
    /\ ~(Signed(x.rating) < r_min)
    /\ x.review_count_log10.cls = "fin"
    /\ ~(x.review_count_log10.tenths < l_min)

Occurrences(seq, x) == Cardinality({i \in 1..Len(seq) : seq[i] = x})

\* C1: on a rendered page the filtered view holds exactly the records of the
\* cleaned dataset whose rating is >= r_min and whose log review count is
\* >= l_min (both inclusive): every record in the view is a record of the
\* dataset that meets both thresholds, and every record that meets both is in
\* the view as often as in the dataset; an empty result is a rendered page.
C1_FilteredViewExact ==
    page.status = "rendered" =>
        /\ \A i \in 1..Len(page.df_filtered) :
              Meets(page.df_filtered[i], page.min_rating_slider, page.min_reviews_log)
        /\ \A j \in 1..Len(page.df_original) :
              Occurrences(page.df_filtered, page.df_original[j]) =
                 IF Meets(page.df_original[j], page.min_rating_slider, page.min_reviews_log)
                 THEN Occurrences(page.df_original, page.df_original[j])
                 ELSE 0
        /\ \A i \in 1..Len(page.df_filtered) :
              Occurrences(page.df_original, page.df_filtered[i]) > 0

\* a view that keeps a record sitting exactly on both thresholds and leaves
\* another record out
C1_Witness ==
    /\ page.status = "rendered"
    /\ page.df_filtered # <<>>
    /\ Len(page.df_filtered) < Len(page.df_original)
    /\ \E i \in 1..Len(page.df_filtered) :
          /\ Signed(page.df_filtered[i].rating) = page.min_rating_slider
          /\ page.df_filtered[i].review_count = 9
          /\ page.min_reviews_log = 10

\* the rating cell resolves to a number: it is not a sentinel, not missing,
\* and it parses
DefinedRating(c) ==
    \/ c.tag = "num" /\ c.f.cls # "nan"
    \/ /\ c.tag = "str"
       /\ c.s \notin RatingSentinels
       /\ float(c.s).ok
       /\ float(c.s).f.cls # "nan"

Titles(seq) == [i \in 1..Len(seq) |-> seq[i].title]
KeptRows(rows) == SelectSeq(rows, LAMBDA row : DefinedRating(row.rating))

\* C2: whenever load_and_clean_data returns the cleaning of a spreadsheet,
\* every record of the result has a defined rating, and the records are, in
\* order, the input rows whose rating is neither a sentinel, nor missing, nor
\* unparseable: no other row is removed.
C2_OnlyUndefinedRatingsDropped ==
    [][\A e \in cache' \ cache :
          disk.state = "sheet" =>
             /\ \A i \in 1..Len(e.value.df) : e.value.df[i].rating.cls # "nan"
             /\ Titles(e.value.df) = Titles(KeptRows(disk.rows))]_vars

\* a load that dropped a row for its rating and kept another row whose log
\* review count is NaN
C2_Witness ==
    /\ disk.state = "sheet"
    /\ \E e \in cache :
          /\ Len(e.value.df) < Len(disk.rows)
          /\ Titles(e.value.df) = Titles(KeptRows(disk.rows))
          /\ \E i \in 1..Len(e.value.df) : e.value.df[i].review_count_log10.cls = "nan"

\* C8: a rendered page whose filtered view is empty reports the count 0, the
\* average rating 0 and the max review count "N/A", and shows the warning in
\* place of the chart.
C8_EmptyViewRenders ==
    (page.status = "rendered" /\ page.df_filtered = <<>>) =>
        /\ page.count = 0
        /\ page.avg_rating = Zero
        /\ page.max_reviews = NA
        /\ page.chart = "warning"
        /\ page.table = <<>>

C8_Witness ==
    /\ page.status = "rendered"
    /\ page.df_original # <<>>
    /\ page.df_filtered = <<>>
    /\ page.chart = "warning"

\* C3: for every raw review-count value the parsed review_count is a
\* non-negative integer, and log10(review_count + 1) is a number >= 0.
C3_ReviewCountNonNegative ==
    /\ pc \in {"log10", "done"} => count >= 0
    /\ pc = "done" => (log10.cls = "fin" /\ log10.tenths >= 0)

\* the number truncated toward zero
Truncated(f) == IF f.neg THEN 0 - (f.mant \div Pow10(f.scale))
                ELSE f.mant \div Pow10(f.scale)

\* C4: a review-count cell that is already a number passes through
\* clean_reviews unchanged, and review_count is that number as an integer.
C4_NumericPassesThrough ==
    cell.tag = "num" =>
        /\ pc # "apply" => ret = cell.f
        /\ pc \in {"log10", "done"} => count = Truncated(cell.f)

\* the text is a valid finite number for the parser: after trimming, a number
\* followed by a K or k suffix, or a number with thousands separators
FiniteNumber(r) == r.ok /\ r.f.cls = "fin"
EndsWithK(s) == s # <<>> /\ s[Len(s)] \in {"K", "k"}
ValidFiniteText(s) ==
    IF EndsWithK(strip(s))
    THEN FiniteNumber(float(SubSeq(strip(s), 1, Len(strip(s)) - 1)))
    ELSE FiniteNumber(float(remove(strip(s), ",")))

HasK(s) == contains(s, "K") \/ contains(s, "k")

\* C5: no review-count cell aborts the load: no exception leaves the cleaning
\* step, and a text that is not a valid finite number yields 0.  (Texts that
\* hold a K or k are the subject of C10 and are left to it here.)
C5_NoCellAbortsLoad ==
    /\ pc # "raised"
    /\ (/\ cell.tag = "str"
        /\ ~HasK(cell.s)
        /\ ~ValidFiniteText(cell.s)
        /\ pc \in {"log10", "done"})
          => count = 0

\* what the K branch is to return for a trimmed text that holds a K or k
SuffixResult(s) ==
    IF /\ EndsWithK(s)
       /\ ~contains(SubSeq(s, 1, Len(s) - 1), "K")
       /\ ~contains(SubSeq(s, 1, Len(s) - 1), "k")
       /\ float(SubSeq(s, 1, Len(s) - 1)).ok
    THEN Times1000(float(SubSeq(s, 1, Len(s) - 1)).f)
    ELSE IntZero

\* C10: for a text holding a K or k, clean_reviews returns the number before
\* a trailing K/k suffix times 1000, and 0 when that remainder does not parse
\* or when a K/k occurs anywhere but as the suffix.
C10_KIsASuffix ==
    (/\ cell.tag = "str"
     /\ contains(strip(cell.s), "K") \/ contains(strip(cell.s), "k")
     /\ pc # "apply")
        => ret = SuffixResult(strip(cell.s))

\* what the page is to work on, given the file as it is now
Current == load_and_clean_data(DATA_FILE, disk)

\* C6: every pass works on the cleaning of the file's current content: a
\* rendered page shows the cleaning of what is on disk now, and a stopped
\* page stops for what is on disk now.
C6_PassUsesCurrentContent ==
    [][Pass =>
          /\ page'.status = "rendered" =>
                (Current.outcome = "returned" /\ page'.df_original = Current.df)
          /\ page'.status = "stopped" =>
                (Current.outcome = "returned" /\ Current.df = <<>>
                   /\ page'.shown = Current.shown)]_vars

\* C7: a pass that runs while the file is missing or unreadable shows the
\* error and stops before anything else is rendered.
C7_MissingFileStops ==
    [][(Pass /\ disk.state \in {"missing", "unreadable"}) =>
          /\ page'.status = "stopped"
          /\ page'.shown # <<>>]_vars

\* C9: with r_min at the dataset's minimum rating and l_min = 0 the filtered
\* view is the whole cleaned dataset and the coverage is 100%.
C9_LoosestFilterKeepsAll ==
    (/\ page.status = "rendered"
     /\ page.min_rating_slider = min_rating_val(page.df_original)
     /\ page.min_reviews_log = 0)
        => /\ page.df_filtered = page.df_original
           /\ page.coverage.num = 100 * page.coverage.den

=============================================================================
